---- MODULE Spec2Model ----
(***************************************************************************)
(* Model of tgpawn's update handler (src/src/main.rs, handle_update):      *)
(* matchmaking ("start"), the move pipeline (any other text), "nuke" and   *)
(* the "resign" stub, over the SQLite store (users, games, moves) and the  *)
(* in-memory board map.                                                    *)
(*                                                                         *)
(* One step of the model is one store statement (or the final sends)       *)
(* together with the synchronous code that follows it up to the next       *)
(* .await.  Spec runs one handler at a time, as the loop in async_main     *)
(* does; SpecConc lets the handlers of different users interleave at these *)
(* await points.                                                           *)
(*                                                                         *)
(* shakmaty is abstracted to a small position type: what is on the board   *)
(* ("open", "mated", "stalemated"), the side to move and the fullmove      *)
(* number.  Which moves mate is the library's business: every open         *)
(* position offers a quiet, a mating and a stalemating move, so that each  *)
(* outcome is met within MaxPly.  Game ids are SQLite rowids (schema.sql   *)
(* is not in the tree): the first row gets 1, a later row max(id)+1.       *)
(***************************************************************************)
EXTENDS Integers, FiniteSets, Sequences, TLC

\* ---------------------------------------------------------------- bounds
NumUsers == 2
MaxGames == 2
MaxPly == 2
MaxInFlight == 2

\* ------------------------------------------------------- program constants
NULL == -1
Timeout == 0
Resign == 1
Checkmate == 2
Draw == 3

Users == 1..NumUsers

White == "w"
Black == "b"

Other(c) == IF c = White THEN Black ELSE White

\* ------------------------------------------------------ position (shakmaty)
NoBoard == [board |-> "none", turn |-> White, fullmoves |-> 0]

\* Fen::from_position(..).to_string(): placement, side to move, fullmove number
Fen(pos) == <<pos.board, pos.turn, pos.fullmoves>>

\* fen.parse::<Fen>().into_position(..)
FromFen(f) == [board |-> f[1], turn |-> f[2], fullmoves |-> f[3]]

STARTING_FEN == <<"open", White, 1>>

\* number of half-moves a position is away from the starting position
PlyOf(pos) == 2 * (pos.fullmoves - 1) + (IF pos.turn = Black THEN 1 ELSE 0)

NoMove == "none"

\* the texts that San::from_ascii parses, with the move each one names
SanMoves == [n \in {"Nf3", "Kb6"} |-> IF n = "Nf3" THEN "quiet" ELSE "stale"]

\* the texts that only Uci::from_ascii parses
UciMoves == [n \in {"d1h5"} |-> "mate"]

Notations == {"Nf3", "Kb6", "d1h5", "zz"}

Texts == {"start", "nuke", "resign"} \cup Notations

\* the requests sent concurrently: joins, a quiet move and a mating move
ConcTexts == {"start", "Nf3", "d1h5"}

\* a move exists in a position only while the game is not over
HasMoves(pos) == pos.board = "open"

\* parse_move: SAN first, UCI as the fallback; to_move() fails on a position
\* in which the move cannot be played
parse_move(notation, pos) ==
  IF notation \in DOMAIN SanMoves /\ HasMoves(pos) THEN SanMoves[notation]
  ELSE IF notation \in DOMAIN UciMoves /\ HasMoves(pos) THEN UciMoves[notation]
  ELSE NoMove

is_legal(pos, m) == HasMoves(pos) /\ m \in {"quiet", "mate", "stale"}

\* m.to_uci(..).to_string()
to_uci(m) == IF m = "quiet" THEN "g1f3" ELSE IF m = "mate" THEN "d1h5" ELSE "a6b6"

play_unchecked(pos, m) ==
  [board |-> IF m = "mate" THEN "mated" ELSE IF m = "stale" THEN "stalemated" ELSE "open",
   turn |-> Other(pos.turn),
   fullmoves |-> IF pos.turn = Black THEN pos.fullmoves + 1 ELSE pos.fullmoves]

is_game_over(pos) == pos.board \in {"mated", "stalemated"}

\* board.outcome(): "w" / "b" for Decisive{winner}, "draw", or "none"
outcome(pos) ==
  IF pos.board = "mated" THEN Other(pos.turn)
  ELSE IF pos.board = "stalemated" THEN "draw"
  ELSE "none"

\* ------------------------------------------------------------------ state
VARIABLES users, games, moves, boards, h, panicked, failed

vars == <<users, games, moves, boards, h, panicked, failed>>

NoGame == [id |-> 0, w_id |-> 0, b_id |-> 0, fen |-> <<>>]

NoPair == [id |-> 0, w_id |-> NULL, b_id |-> NULL]

Idle == [pc |-> "idle", text |-> "", game |-> NoGame, pair |-> NoPair,
         m |-> NoMove, ended |-> FALSE, fen |-> <<>>, winner |-> NULL,
         termination |-> NULL, pre |-> NoBoard, ply |-> NULL]

\* failed remembers a move attempt whose insert into moves failed, for as long
\* as no statement has touched the store since: who sent it, the text, and the
\* fen the attempt had computed, and whether its game had both players
NoFail == [user |-> 0, text |-> "", fen |-> <<>>, seated |-> FALSE]

EmptyMap == [i \in {} |-> NULL]

InFlight == {u \in Users : h[u].pc # "idle"}

MovesOf(id) == {r \in moves : r.game_id = id}

\* sqlx decodes a NULL column into a non-Option i64 as 0
DecodeI64(v) == IF v = NULL THEN 0 ELSE v

\* a bool bound as a statement parameter is the integer 0 or 1
BoolToInt(b) == IF b THEN 1 ELSE 0

Init ==
  /\ users = {}
  /\ games = EmptyMap
  /\ moves = {}
  /\ boards = EmptyMap
  /\ h = [u \in Users |-> Idle]
  /\ panicked = FALSE
  /\ failed = NoFail

\* ------------------------------------------------------ store operators
\* the lookup with the b_id disjunct forgotten
PlayingGamesWhiteOnly(u) ==
  {id \in DOMAIN games : games[id].w_id = u /\ ~games[id].ended}

\* select ... from games where (w_id = $1 or b_id = $1) and ended = 0
PlayingGames(u) ==
  {id \in DOMAIN games : (games[id].w_id = u \/ games[id].b_id = u) /\ ~games[id].ended}

\* the select without its null-seat condition
PairableAny == {id \in DOMAIN games : ~games[id].ended}

\* select id, w_id, b_id from games where (b_id is null or w_id is null) and ended = 0
Pairable ==
  {id \in DOMAIN games : (games[id].b_id = NULL \/ games[id].w_id = NULL) /\ ~games[id].ended}

\* rowid given to a new games row
NewGameId == IF DOMAIN games = {} THEN 1
             ELSE (CHOOSE i \in DOMAIN games : \A j \in DOMAIN games : j <= i) + 1

\* the subquery with its where clause forgotten
PlyCountAll(id) == Cardinality(moves)

\* (select count(*) from moves where game_id = $1)
PlyCount(id) == Cardinality(MovesOf(id))

\* update games set ended = $1, winner = $2, termination = $3, fen = $4 where id = $1
\* with $1 = ended, $2 = winner, $3 = termination, $4 = fen (the fifth bind, id, is unused)
UpdateGames(g, ended, winner, termination, fen) ==
  [id \in DOMAIN g |->
     IF id = BoolToInt(ended)
     THEN [g[id] EXCEPT !.ended = ended, !.winner = winner,
                        !.termination = termination, !.fen = fen]
     ELSE g[id]]

\* boards.remove(&id)
Remove(b, id) == [i \in DOMAIN b \ {id} |-> b[i]]

\* boards.entry(id).or_insert_with(|| fen.parse())
EntryOrInsert(b, id, fen) ==
  IF id \in DOMAIN b THEN b ELSE [i \in DOMAIN b \cup {id} |-> IF i = id THEN FromFen(fen) ELSE b[i]]

\* the player who gets the winner column: the side to move after the move
WinnerOf(pos, ended, w_id, b_id) ==
  IF ended THEN (IF pos.turn = White THEN w_id ELSE b_id) ELSE NULL

\* Option<bool> bound to the termination column
TerminationOf(pos) ==
  IF outcome(pos) = Black THEN 1
  ELSE IF outcome(pos) = White THEN 0
  ELSE NULL

\* the turn check without the side to move: any player of the game passes
MyTurnAnySide(pos, u, w_id, b_id) == u = w_id \/ u = b_id

\* turn check of the move branch
MyTurn(pos, u, w_id, b_id) ==
  (pos.turn = White /\ u = w_id) \/ (pos.turn = Black /\ u = b_id)

\* -------------------------------------------------------------- handler
Finish(u) == [h EXCEPT ![u] = Idle]

\* a panic unwinds out of block_on: the process ends and its memory (the
\* board map, the handlers in flight) is gone; the database file stays
Abort ==
  /\ panicked' = TRUE
  /\ boards' = EmptyMap
  /\ h' = [u \in Users |-> Idle]

\* row of the ongoing-game select as the tuple (i64, i64, i64, .., String)
PlayingRows(u) ==
  IF PlayingGames(u) = {} THEN {NoGame}
  ELSE {[id |-> id, w_id |-> DecodeI64(games[id].w_id),
         b_id |-> DecodeI64(games[id].b_id), fen |-> games[id].fen] : id \in PlayingGames(u)}

\* the model's bound on the number of games and on the length of a game,
\* applied when a request arrives
Bounded(u, t) ==
  /\ t = "start" =>
       \/ Cardinality(DOMAIN games) < MaxGames
       \/ \E id \in DOMAIN games :
             ~games[id].ended /\ NULL \in {games[id].w_id, games[id].b_id}
  /\ t \in Notations =>
       \A id \in DOMAIN games :
          (~games[id].ended /\ u \in {games[id].w_id, games[id].b_id})
             => /\ Cardinality(MovesOf(id)) < MaxPly
                /\ id \in DOMAIN boards => PlyOf(boards[id]) < MaxPly

\* a message arrives: insert or ignore into users (id) values ($1)
Begin(u, t, limit) ==
  /\ ~panicked
  /\ h[u].pc = "idle"
  /\ Cardinality(InFlight) < limit
  /\ Bounded(u, t)
  /\ users' = users \cup {u}
  /\ h' = [h EXCEPT ![u] = [Idle EXCEPT !.pc = "lookup", !.text = t]]
  /\ UNCHANGED <<games, moves, boards, panicked, failed>>

\* ongoing-game select, then the "nuke" branch up to its first delete
LookupNuke(u) ==
  /\ ~panicked
  /\ h[u].pc = "lookup" /\ h[u].text = "nuke"
  /\ h' = [h EXCEPT ![u].pc = "nuke1"]
  /\ failed' = NoFail
  /\ UNCHANGED <<users, games, moves, boards, panicked>>

\* ongoing-game select, then the "start" branch up to the pairable select
LookupStart(u) ==
  /\ ~panicked
  /\ h[u].pc = "lookup" /\ h[u].text = "start"
  /\ h' = IF PlayingGames(u) # {} THEN Finish(u) ELSE [h EXCEPT ![u].pc = "pairable"]
  /\ failed' = NoFail
  /\ UNCHANGED <<users, games, moves, boards, panicked>>

\* ongoing-game select, then the "resign" branch: todo!() in both arms
LookupResign(u) ==
  /\ ~panicked
  /\ h[u].pc = "lookup" /\ h[u].text = "resign"
  /\ Abort
  /\ failed' = NoFail
  /\ UNCHANGED <<users, games, moves>>

\* the move branch from the cache lookup to the computed row values
\* (lines 146-186), as the pair <<boards', handler locals'>>
PlayMove(u, loc, g) ==
  LET b1 == EntryOrInsert(boards, g.id, g.fen)
      pos == b1[g.id]
      m == parse_move(loc.text, pos)
      new == play_unchecked(pos, m)
      ended == is_game_over(new)
  IN IF ~MyTurn(pos, u, g.w_id, g.b_id) \/ m = NoMove \/ ~is_legal(pos, m)
     THEN <<b1, Idle>>
     ELSE <<[b1 EXCEPT ![g.id] = new],
            [loc EXCEPT !.pc = "insert", !.game = g, !.m = m, !.ended = ended,
                        !.fen = Fen(new),
                        !.winner = WinnerOf(new, ended, g.w_id, g.b_id),
                        !.termination = TerminationOf(new),
                        !.pre = pos]>>

\* ongoing-game select, then the move branch up to the insert into moves
LookupMove(u) ==
  /\ ~panicked
  /\ h[u].pc = "lookup" /\ h[u].text \in Notations
  /\ \E g \in PlayingRows(u) :
       IF g = NoGame
       THEN /\ h' = Finish(u)
            /\ UNCHANGED boards
       ELSE LET r == PlayMove(u, h[u], g)
            IN /\ boards' = r[1]
               /\ h' = [h EXCEPT ![u] = r[2]]
  /\ failed' = NoFail
  /\ UNCHANGED <<users, games, moves, panicked>>

\* delete from games
Nuke1(u) ==
  /\ ~panicked
  /\ h[u].pc = "nuke1"
  /\ games' = EmptyMap
  /\ h' = [h EXCEPT ![u].pc = "nuke2"]
  /\ failed' = NoFail
  /\ UNCHANGED <<users, moves, boards, panicked>>

\* delete from users
Nuke2(u) ==
  /\ ~panicked
  /\ h[u].pc = "nuke2"
  /\ users' = {}
  /\ h' = [h EXCEPT ![u].pc = "nuke3"]
  /\ failed' = NoFail
  /\ UNCHANGED <<games, moves, boards, panicked>>

\* delete from moves
Nuke3(u) ==
  /\ ~panicked
  /\ h[u].pc = "nuke3"
  /\ moves' = {}
  /\ h' = Finish(u)
  /\ failed' = NoFail
  /\ UNCHANGED <<users, games, boards, panicked>>

\* the match with its arms giving the joiner the seat that is taken
SeatsSwapped(u, w_id, b_id) ==
  IF w_id # NULL /\ b_id = NULL THEN <<u, w_id>>
  ELSE IF w_id = NULL /\ b_id # NULL THEN <<b_id, u>>
  ELSE <<NULL, NULL>>

\* the match on the pairable row: the seats the update will write
Seats(u, w_id, b_id) ==
  IF w_id # NULL /\ b_id = NULL THEN <<w_id, u>>
  ELSE IF w_id = NULL /\ b_id # NULL THEN <<u, b_id>>
  ELSE <<NULL, NULL>>

\* pairable select (limit 1) and the match on its row
SelectPairable(u) ==
  /\ ~panicked
  /\ h[u].pc = "pairable"
  /\ IF Pairable = {}
     THEN /\ h' = [h EXCEPT ![u].pc = "create"]
          /\ UNCHANGED <<panicked, boards>>
     ELSE \E id \in Pairable :
            LET s == Seats(u, games[id].w_id, games[id].b_id)
            IN IF s = <<NULL, NULL>>
               THEN Abort
               ELSE /\ h' = [h EXCEPT ![u].pc = "pair",
                                      ![u].pair = [id |-> id, w_id |-> s[1], b_id |-> s[2]]]
                    /\ UNCHANGED <<panicked, boards>>
  /\ failed' = NoFail
  /\ UNCHANGED <<users, games, moves>>

\* update games set w_id = $1, b_id = $2 where games.id = $3 returning ..
UpdatePair(u) ==
  /\ ~panicked
  /\ h[u].pc = "pair"
  /\ games' = IF h[u].pair.id \in DOMAIN games
              THEN [games EXCEPT ![h[u].pair.id].w_id = h[u].pair.w_id,
                                 ![h[u].pair.id].b_id = h[u].pair.b_id]
              ELSE games
  /\ h' = Finish(u)
  /\ failed' = NoFail
  /\ UNCHANGED <<users, moves, boards, panicked>>

\* insert into games (w_id, b_id, winner, ended, fen) values ($1, null, null, 0, $2)
InsertGame(u) ==
  /\ ~panicked
  /\ h[u].pc = "create"
  /\ games' = [id \in DOMAIN games \cup {NewGameId} |->
                 IF id = NewGameId
                 THEN [w_id |-> u, b_id |-> NULL, ended |-> FALSE, winner |-> NULL,
                       termination |-> NULL, fen |-> STARTING_FEN]
                 ELSE games[id]]
  /\ h' = Finish(u)
  /\ failed' = NoFail
  /\ UNCHANGED <<users, moves, boards, panicked>>

\* insert into moves (game_id, ply, uci) values ($1, (select count(*) ..), $2)
InsertMove(u) ==
  /\ ~panicked
  /\ h[u].pc = "insert"
  /\ moves' = moves \cup {[game_id |-> h[u].game.id, ply |-> PlyCount(h[u].game.id),
                           uci |-> to_uci(h[u].m)]}
  /\ h' = [h EXCEPT ![u].pc = "update", ![u].ply = PlyCount(h[u].game.id)]
  /\ failed' = NoFail
  /\ UNCHANGED <<users, games, boards, panicked>>

\* update games set ended = $1, .. where id = $1
UpdateGame(u) ==
  /\ ~panicked
  /\ h[u].pc = "update"
  /\ games' = UpdateGames(games, h[u].ended, h[u].winner, h[u].termination, h[u].fen)
  /\ h' = [h EXCEPT ![u].pc = "notify"]
  /\ failed' = NoFail
  /\ UNCHANGED <<users, moves, boards, panicked>>

\* both players are told; boards.remove(&id) if the game ended
Notify(u) ==
  /\ ~panicked
  /\ h[u].pc = "notify"
  /\ boards' = IF h[u].ended THEN Remove(boards, h[u].game.id) ELSE boards
  /\ h' = Finish(u)
  /\ failed' = NoFail
  /\ UNCHANGED <<users, games, moves, panicked>>

\* a send_message(..).await? fails: the handler returns before boards.remove
NotifyFails(u) ==
  /\ ~panicked
  /\ h[u].pc = "notify"
  /\ h' = Finish(u)
  /\ failed' = NoFail
  /\ UNCHANGED <<users, games, moves, boards, panicked>>

\* a store statement followed by `?` fails: the handler returns Err
StoreError(u) ==
  /\ ~panicked
  /\ h[u].pc \in {"lookup", "pair", "create", "insert", "update"}
  /\ h' = Finish(u)
  /\ failed' = IF h[u].pc = "insert"
               THEN [user |-> u, text |-> h[u].text, fen |-> h[u].fen,
                     seated |-> h[u].game.w_id \in Users /\ h[u].game.b_id \in Users]
               ELSE IF h[u].pc = "lookup" THEN failed ELSE NoFail
  /\ UNCHANGED <<users, games, moves, boards, panicked>>

\* a store statement followed by unwrap() fails: the process panics
StorePanic(u) ==
  /\ ~panicked
  /\ h[u].pc \in {"pairable", "nuke1", "nuke2", "nuke3"}
  /\ Abort
  /\ failed' = NoFail
  /\ UNCHANGED <<users, games, moves>>

\* the process is started again after a panic: async_main opens the same
\* database file and begins with an empty board map
Restart ==
  /\ panicked
  /\ panicked' = FALSE
  /\ UNCHANGED <<users, games, moves, boards, h, failed>>

\* the steps of the "start" branch and of the move branch
PlayStep(u) ==
  \/ LookupStart(u) \/ LookupMove(u)
  \/ SelectPairable(u) \/ UpdatePair(u) \/ InsertGame(u)
  \/ InsertMove(u) \/ UpdateGame(u) \/ Notify(u) \/ NotifyFails(u)
  \/ StoreError(u)

\* the steps of the "nuke" and "resign" branches, and the unwrap() panics
AdminStep(u) ==
  \/ LookupNuke(u) \/ LookupResign(u)
  \/ Nuke1(u) \/ Nuke2(u) \/ Nuke3(u)
  \/ StorePanic(u)

\* one update at a time, as the loop of async_main handles them
Next ==
  \/ \E u \in Users, t \in Texts : Begin(u, t, 1)
  \/ \E u \in Users : PlayStep(u)
  \/ \E u \in Users : AdminStep(u)
  \/ Restart

Spec == Init /\ [][Next]_vars

\* join and move handlers of different users interleave at their await points
NextConc ==
  \/ \E u \in Users, t \in ConcTexts : Begin(u, t, MaxInFlight)
  \/ \E u \in Users : PlayStep(u)

SpecConc == Init /\ [][NextConc]_vars

\* ------------------------------------------------------------ properties
\* the ongoing games a user is seated in
OngoingOf(u) ==
  {id \in DOMAIN games : ~games[id].ended /\ u \in {games[id].w_id, games[id].b_id}}

\* C1: no user is white or black in more than one game row with ended = false
C1_OneOngoingGame == \A u \in Users : Cardinality(OngoingOf(u)) <= 1

\* a seated player of an active game has sent "start" and the lookup is next
C1_Witness ==
  \E u \in Users, id \in DOMAIN games :
     /\ h[u].pc = "lookup" /\ h[u].text = "start"
     /\ ~games[id].ended
     /\ games[id].w_id # NULL /\ games[id].b_id # NULL
     /\ u \in {games[id].w_id, games[id].b_id}

\* a seat that is taken keeps its player
SeatsKept ==
  \A id \in DOMAIN games \cap DOMAIN games' :
     /\ games[id].w_id # NULL => games'[id].w_id = games[id].w_id
     /\ games[id].b_id # NULL => games'[id].b_id = games[id].b_id

PendingGames ==
  {id \in DOMAIN games :
     /\ ~games[id].ended
     /\ (games[id].w_id = NULL) # (games[id].b_id = NULL)}

\* C2: interleaved joins behave as if serialized: no step overwrites a seated
\* player, and two joiners never leave two pending games behind
C2_JoinRace == [][SeatsKept /\ Cardinality(PendingGames') <= 1]_vars

\* handler u is past the move branch's checks and has its writes or sends left
Persisting(u) == h[u].pc \in {"insert", "update", "notify"}

\* both seats of the game row are taken
Seated(id) == games[id].w_id # NULL /\ games[id].b_id # NULL

\* the game handler u looked up had both seats taken
InSeated(u) == h[u].game.w_id \in Users /\ h[u].game.b_id \in Users

\* C3: outside a move attempt in progress, the cached board of a game with
\* both players encodes to the fen of the game's row
C3_CacheMatchesStore ==
  \A id \in DOMAIN boards \cap DOMAIN games :
     (Seated(id) /\ \A u \in Users : Persisting(u) => h[u].game.id # id)
        => Fen(boards[id]) = games[id].fen

\* C4: the game-row update of an accepted move stores
\* encode(apply(decode(fen before), move))
C4_FenRoundTrip ==
  [][\A u \in Users :
       (/\ h[u].pc = "update" /\ h'[u].pc = "notify"
        /\ h[u].game.id \in DOMAIN games /\ InSeated(u))
          => games'[h[u].game.id].fen
               = Fen(play_unchecked(FromFen(games[h[u].game.id].fen), h[u].m))]_vars

\* C5: when a store write of a move attempt fails, the cached board of the
\* game is its pre-move value or absent
C5_FailureLeavesCache ==
  [][\A u \in Users :
       (/\ h[u].pc \in {"insert", "update"} /\ h'[u].pc = "idle"
        /\ ~panicked' /\ InSeated(u))
          => \/ h[u].game.id \notin DOMAIN boards'
             \/ boards'[h[u].game.id] = h[u].pre]_vars

MovePersisted(u) ==
  [game_id |-> h[u].game.id, ply |-> h'[u].ply, uci |-> to_uci(h[u].m)] \in moves'
  \/ [game_id |-> h[u].game.id, ply |-> h[u].ply, uci |-> to_uci(h[u].m)] \in moves'

RowPersisted(u) ==
  /\ h[u].game.id \in DOMAIN games'
  /\ games'[h[u].game.id].fen = h[u].fen
  /\ games'[h[u].game.id].ended = h[u].ended
  /\ h[u].ended => /\ games'[h[u].game.id].winner = h[u].winner
                   /\ games'[h[u].game.id].termination = h[u].termination

\* C6: when the write phase of a move attempt is over (with a failure or with
\* both statements done), the Move record and the game-row update are both
\* persisted or neither is
C6_AllOrNothing ==
  [][\A u \in Users :
       (/\ h[u].pc \in {"insert", "update"}
        /\ h'[u].pc \in {"idle", "notify"}
        /\ ~panicked' /\ InSeated(u))
          => (MovePersisted(u) <=> RowPersisted(u))]_vars

\* C7: the retry of a move attempt that failed at the insert, the store
\* untouched in between, is accepted and computes the same fen
C7_RetryAccepted ==
  [][\A u \in Users :
       (/\ h[u].pc = "lookup"
        /\ failed.user = u /\ failed.text = h[u].text /\ failed.seated
        /\ failed' = NoFail)
          => (h'[u].pc = "insert" /\ h'[u].fen = failed.fen)]_vars

\* C8: the plies of a game's Move records are exactly 0 .. n-1
C8_PliesContiguous ==
  \A id \in {r.game_id : r \in moves} :
     {r.ply : r \in MovesOf(id)} = 0 .. (Cardinality(MovesOf(id)) - 1)

\* two interleaved move attempts of one game have both inserted their record
C8_Witness ==
  \E u \in Users, v \in Users :
     /\ u # v
     /\ h[u].pc = "update" /\ h[v].pc = "update"
     /\ h[u].game.id = h[v].game.id
     /\ Cardinality(MovesOf(h[u].game.id)) >= 2

\* C9: a game-ending move sets ended on its own game's row (termination
\* checkmate for a mate), any other move leaves it, and no move changes the
\* ended flag of another game
C9_EndedOwnGame ==
  [][\A u \in Users :
       (/\ h[u].pc = "update" /\ h'[u].pc = "notify"
        /\ h[u].game.id \in DOMAIN games /\ InSeated(u))
          => /\ is_game_over(FromFen(h[u].fen))
                  => /\ games'[h[u].game.id].ended
                     /\ h[u].m = "mate" => games'[h[u].game.id].termination = Checkmate
             /\ ~is_game_over(FromFen(h[u].fen))
                  => games'[h[u].game.id].ended = games[h[u].game.id].ended
             /\ \A j \in DOMAIN games \ {h[u].game.id} :
                  games'[j].ended = games[j].ended]_vars

\* C10: the winner a game-ending move writes is the mover for a checkmate and
\* null for a draw
C10_WinnerByOutcome ==
  [][\A u \in Users :
       (/\ h[u].pc = "update" /\ h'[u].pc = "notify"
        /\ is_game_over(FromFen(h[u].fen)) /\ InSeated(u))
          => \A j \in DOMAIN games :
               games'[j] # games[j]
                  => games'[j].winner = (IF h[u].m = "mate" THEN u ELSE NULL)]_vars

\* C11: when no update is being handled, the board map has no entry for a
\* game (with both players) whose row has ended = true, nor for a game whose
\* row is gone
C11_NoCacheForEnded ==
  InFlight = {} =>
     \A id \in DOMAIN boards :
        id \in DOMAIN games /\ (Seated(id) => ~games[id].ended)

\* C12: the row of a game (with both players) that has ended = true keeps
\* its winner, termination and fen under the moves of seated players, and the
\* game gets no further Move record
C12_EndedFrozen ==
  [][\A id \in DOMAIN games \cap DOMAIN games' :
       (/\ games[id].ended /\ Seated(id)
        /\ \A u \in Users : Persisting(u) => InSeated(u))
          => /\ games'[id].winner = games[id].winner
             /\ games'[id].termination = games[id].termination
             /\ games'[id].fen = games[id].fen
             /\ MovesOf(id)' \subseteq MovesOf(id)]_vars

\* C13: the Move record at an even ply is inserted by the game's white
\* player, the one at an odd ply by its black player
C13_TurnAlternation ==
  [][\A u \in Users :
       (h[u].pc = "insert" /\ h'[u].pc = "update" /\ InSeated(u))
          => u = (IF h'[u].ply % 2 = 0 THEN h[u].game.w_id ELSE h[u].game.b_id)]_vars

\* the board the move branch consults for game id: the cached one, or the
\* row's fen decoded
BoardOf(id) == IF id \in DOMAIN boards THEN boards[id] ELSE FromFen(games[id].fen)

\* u sent a move, is seated in an ongoing game and is not the side to move
NotOnTurn(u) ==
  /\ h[u].pc = "lookup" /\ h[u].text \in Notations
  /\ OngoingOf(u) # {}
  /\ \A id \in OngoingOf(u) :
        \/ BoardOf(id).turn = White /\ games[id].w_id # u
        \/ BoardOf(id).turn = Black /\ games[id].b_id # u

\* C14: a move attempt by a player who is not the side to move is rejected:
\* the handler returns without a Move record and without a change of a game
\* row, and every position the board map holds stays as it is (a game not yet
\* in the map may enter it with the position decoded from its row)
C14_NotYourTurnNoChange ==
  [][\A u \in Users :
       (NotOnTurn(u) /\ h'[u] # h[u])
          => /\ h'[u].pc = "idle"
             /\ moves' = moves /\ games' = games /\ users' = users
             /\ DOMAIN boards \subseteq DOMAIN boards'
             /\ \A id \in DOMAIN boards : boards'[id] = boards[id]
             /\ \A id \in DOMAIN boards' \ DOMAIN boards :
                  id \in OngoingOf(u) /\ boards'[id] = FromFen(games[id].fen)]_vars

\* the black player of a game with both players has sent a move while white
\* is to move, and the lookup is next
C14_Witness ==
  \E u \in Users, id \in DOMAIN games :
     /\ NotOnTurn(u)
     /\ id \in OngoingOf(u) /\ Seated(id)
     /\ games[id].b_id = u /\ BoardOf(id).turn = White
     /\ h[u].text = "Nf3"

\* the row of game id with user u in its empty slot
Filled(id, u) ==
  IF games[id].w_id = NULL THEN [games[id] EXCEPT !.w_id = u]
  ELSE [games[id] EXCEPT !.b_id = u]

\* C15: a join handled alone by a user with no ongoing game: with a pending
\* game in the store it goes on to pair, and its update fills the empty slot
\* of one pending game with the user and changes nothing else, the player who
\* was seated staying white; with no pending game it goes on to create, and
\* its insert adds one row [w_id = user, b_id null, ended = false, starting
\* position]
C15_JoinPairsOrCreates ==
  [][\A u \in Users :
       /\ (h[u].pc = "lookup" /\ h[u].text = "start" /\ OngoingOf(u) = {}
              /\ h'[u].pc # "lookup")
             => h'[u].pc \in {"pairable", "idle"}
       /\ (h[u].pc = "pairable" /\ h'[u].pc = "pair")
             => /\ PendingGames # {}
                /\ h'[u].pair.id \in PendingGames
       /\ (h[u].pc = "pairable" /\ h'[u].pc = "create") => PendingGames = {}
       /\ (h[u].pc = "pairable" /\ PendingGames # {} /\ ~panicked')
             => h'[u].pc = "pair"
       /\ (h[u].pc = "pair" /\ games' # games)
             => \E id \in PendingGames :
                   /\ games' = [games EXCEPT ![id] = Filled(id, u)]
                   /\ games'[id].w_id = games[id].w_id
                   /\ games'[id].b_id = u
                   /\ Seated(id)' /\ ~games'[id].ended
       /\ (h[u].pc = "create" /\ games' # games)
             => \E id \in DOMAIN games' \ DOMAIN games :
                   /\ DOMAIN games' = DOMAIN games \cup {id}
                   /\ \A j \in DOMAIN games : games'[j] = games[j]
                   /\ games'[id] = [w_id |-> u, b_id |-> NULL, ended |-> FALSE,
                                    winner |-> NULL, termination |-> NULL,
                                    fen |-> <<"open", "w", 1>>]]_vars

\* a second player has joined a pending game: both seats are taken by
\* different users, the game is not ended and is at the starting position
C15_Witness ==
  /\ InFlight = {}
  /\ \E id \in DOMAIN games :
        /\ Seated(id) /\ games[id].w_id # games[id].b_id
        /\ ~games[id].ended /\ games[id].fen = STARTING_FEN
        /\ MovesOf(id) = {}

\* C16: the handler of a "resign" request does not abort, and a request by a
\* user with no ongoing game changes no row and no cached board
C16_ResignHandled ==
  [][\A u \in Users :
       (h[u].pc = "lookup" /\ h[u].text = "resign" /\ h'[u].pc # "lookup")
          => /\ ~panicked'
             /\ OngoingOf(u) = {} => UNCHANGED <<games, moves, boards>>]_vars

\* C17: no step removes a users row, a games row or a moves row
C17_RecordsOnlyGrow ==
  [][/\ users \subseteq users'
     /\ DOMAIN games \subseteq DOMAIN games'
     /\ moves \subseteq moves']_vars

\* C18: no two handlers have both passed the turn check of the same game
\* (with both players) and played on its cached board before either has
\* inserted its Move record
C18_OneUnpersistedMove ==
  \A u, v \in Users :
     (/\ u # v
      /\ h[u].pc = "insert" /\ h[v].pc = "insert"
      /\ InSeated(u) /\ InSeated(v))
        => h[u].game.id # h[v].game.id

\* C19: every row the pairable select can return has exactly one null seat,
\* so the match on it never reaches its panic arm
C19_PairableOneNull ==
  \A id \in Pairable : (games[id].w_id = NULL) # (games[id].b_id = NULL)

\* a join is at its pairable select with a pending game in the store
C19_Witness ==
  \E u \in Users : h[u].pc = "pairable" /\ Pairable # {}

\* the ongoing game of u has an empty seat
InPending(u) ==
  OngoingOf(u) # {} /\ \A id \in OngoingOf(u) : ~Seated(id)

\* C20: a move sent by the only player of a pending game is not played: the
\* handler does not go on to its writes and no cached position changes; and
\* the game a second player is seated in has no Move record
C20_NoMoveWhilePending ==
  [][\A u \in Users :
       /\ (h[u].pc = "lookup" /\ h[u].text \in Notations /\ InPending(u))
             => /\ h'[u].pc # "insert"
                /\ \A id \in DOMAIN boards \cap DOMAIN boards' :
                      boards'[id] = boards[id]
       /\ (h[u].pc = "pair" /\ games' # games) => MovesOf(h[u].pair.id) = {}]_vars

====
